---- MODULE Spec2Model ----
(***************************************************************************)
(* Model of the RNC analysis endpoint (POST /analise-rnc) in its three     *)
(* deployed forms:                                                         *)
(*   "hosted"    src/main.py             (Groq, v2.5)                      *)
(*   "local"     src/old/main.py         (Ollama, v3.0)                    *)
(*   "hosted_v1" src/old/main_oldv1.py   (Groq, first prompt)              *)
(* Text is a sequence of Unicode code points, so that str.strip(),         *)
(* json.dumps() and the f-string substitution of len() are computed and    *)
(* not assumed.  A JSON answer of the generation service is a sequence of  *)
(* lexical tokens, parsed by JsonLoads as json.loads parses it.            *)
(***************************************************************************)
EXTENDS Integers, Sequences, FiniteSets, TLC

VARIABLES
    variant,    \* which of the three programs is running
    client,     \* the module-level service handle (hosted variants), else "none"
    payload,    \* per request: the raw JSON list received as dados_rnc
    pc,         \* per request: position of its handling
    dados,      \* per request: payload.dados_rnc after pydantic validation
    prompt,     \* per request: the user message handed to the service
    options,    \* per request: decoding options handed to the service
    calls,      \* per request: number of invocations of the service
    answer,     \* per request: what the service call produced
    outcome     \* per request: what the caller receives

vars == <<variant, client, payload, pc, dados, prompt, options, calls, answer, outcome>>

----------------------------------------------------------------------------
(* Bounds of the model *)

MaxRecs == 2        \* longest dados_rnc list of the main specification
MaxConcRecs == 1    \* longest dados_rnc list when two requests interleave
MaxCtxN == 15       \* longest dados_rnc list of the context-window specification
MaxCalls == 3       \* cap on the invocation counter of one request

----------------------------------------------------------------------------
(* Text: sequences of code points *)

Variants == {"hosted", "local", "hosted_v1"}

\* str.isspace() of one code point, the characters str.strip() removes
IsSpace(c) ==
    \/ c \in 9..13
    \/ c \in 28..32
    \/ c \in {133, 160, 5760, 8232, 8233, 8239, 8287, 12288}
    \/ c \in 8192..8202

RECURSIVE LStrip(_)
LStrip(s) == IF s # <<>> /\ IsSpace(Head(s)) THEN LStrip(Tail(s)) ELSE s

RECURSIVE RStrip(_)
RStrip(s) ==
    IF s # <<>> /\ IsSpace(s[Len(s)]) THEN RStrip(SubSeq(s, 1, Len(s) - 1)) ELSE s

\* a slip that trims the left side only
Strip_left_only(s) == LStrip(s)

\* v.strip()
Strip(s) == RStrip(LStrip(s))

HexDigit(d) == IF d < 10 THEN 48 + d ELSE 87 + d

\* '\\u{0:04x}'.format(n)
HexEscape(n) ==
    <<92, 117, HexDigit((n \div 4096) % 16), HexDigit((n \div 256) % 16),
      HexDigit((n \div 16) % 16), HexDigit(n % 16)>>

\* json.dumps of one character with ensure_ascii left at its default
EscapeChar(c) ==
    CASE c = 34 -> <<92, 34>>
      [] c = 92 -> <<92, 92>>
      [] c = 8  -> <<92, 98>>
      [] c = 9  -> <<92, 116>>
      [] c = 10 -> <<92, 110>>
      [] c = 12 -> <<92, 102>>
      [] c = 13 -> <<92, 114>>
      [] c \in 32..126 /\ c \notin {34, 92} -> <<c>>
      [] c > 65535 ->
            HexEscape(55296 + (((c - 65536) \div 1024) % 1024))
            \o HexEscape(56320 + ((c - 65536) % 1024))
      [] OTHER -> HexEscape(c)

RECURSIVE EscapeAll(_)
EscapeAll(s) == IF s = <<>> THEN <<>> ELSE EscapeChar(Head(s)) \o EscapeAll(Tail(s))

\* json.dumps of a str: the escaped characters between two double quotes
JsonDumpsStr(s) == <<34>> \o EscapeAll(s) \o <<34>>

\* the text "null"
JsonNull == <<110, 117, 108, 108>>

RECURSIVE IntToStr(_)
\* str(n) for n >= 0, as the f-string renders len(payload.dados_rnc)
IntToStr(n) ==
    IF n < 10 THEN <<48 + n>> ELSE IntToStr(n \div 10) \o <<48 + (n % 10)>>

----------------------------------------------------------------------------
(* Records: class Rnc and its validation by pydantic *)

RequiredFields ==
    {"RNC", "ANO", "PRIORIDADE", "COD_PRODUTO", "CLASSIFICACAO", "DESCRICAO",
     "ORIGEM", "CLIENTE", "STATUS", "REGISTRO", "DEPARTAMENTO_DESTINO"}

OptionalFields == {"CONCLUSAO"}

AllFields == RequiredFields \cup OptionalFields

\* A JSON value of a record as received: t is its JSON type, v its text
\* (the characters of a string, the digits of a number, empty for null).
S(text) == [t |-> "str", v |-> text]
N(text) == [t |-> "num", v |-> text]
Null == [t |-> "null", v |-> <<>>]

\* trim_string: strings are stripped, every other value is passed on as it is
trim_string(val) == IF val.t = "str" THEN S(Strip(val.v)) ELSE val

\* a slip that lets numbers through as if they were text
StrTypeOk_coerce(val) == val.t \in {"str", "num"}

\* the annotation str: after the 'before' validator the value must be a str
StrTypeOk(val) == val.t = "str"

\* the annotation Optional[str]
OptStrTypeOk(val) == val.t = "null" \/ StrTypeOk(val)

\* the validation errors of one received record, as (field, error type) pairs
FieldErrors(raw) ==
    {<<f, "missing">> : f \in RequiredFields \ DOMAIN raw}
    \cup {<<f, "string_type">> :
            f \in {g \in RequiredFields \cap DOMAIN raw : ~StrTypeOk(trim_string(raw[g]))}}
    \cup {<<f, "string_type">> :
            f \in {g \in OptionalFields \cap DOMAIN raw : ~OptStrTypeOk(trim_string(raw[g]))}}

\* the Rnc instance built from a record without errors; CONCLUSAO defaults to None
MakeRnc(raw) ==
    [f \in AllFields |-> IF f \in DOMAIN raw THEN trim_string(raw[f]) ELSE Null]

\* RequisicaoAnalista: every element of dados_rnc must validate
PayloadErrors(list) ==
    UNION {{<<i, e[1], e[2]>> : e \in FieldErrors(list[i])} : i \in DOMAIN list}

----------------------------------------------------------------------------
(* The records and lists the requests are drawn from *)

RecPlain ==
    [RNC |-> S(<<49>>), ANO |-> S(<<50, 52>>), PRIORIDADE |-> S(<<65>>),
     COD_PRODUTO |-> S(<<80, 49>>), CLASSIFICACAO |-> S(<<67>>),
     DESCRICAO |-> S(<<68>>), ORIGEM |-> S(<<79>>), CLIENTE |-> S(<<75>>),
     STATUS |-> S(<<65, 66>>), REGISTRO |-> S(<<82>>),
     CONCLUSAO |-> S(<<79, 75>>), DEPARTAMENTO_DESTINO |-> S(<<81>>)]

\* padded values, a value of whitespace only, CONCLUSAO absent
RecPadded ==
    [f \in AllFields \ {"CONCLUSAO"} |->
        CASE f = "DESCRICAO" -> S(<<32, 32, 88, 32, 32>>)
          [] f = "CLIENTE" -> S(<<32, 9>>)
          [] f = "STATUS" -> S(<<9, 65, 32, 66, 10>>)
          [] OTHER -> RecPlain[f]]

\* characters json.dumps escapes: c-cedilla, double quote, backslash; CONCLUSAO null
RecEscaped ==
    [RecPlain EXCEPT !.DESCRICAO = S(<<231, 34, 88, 34>>),
                     !.ORIGEM = S(<<160, 88, 92, 89, 160>>),
                     !.CONCLUSAO = Null]

RecNoStatus == [f \in AllFields \ {"STATUS"} |-> RecPlain[f]]

RecNumAno == [RecPlain EXCEPT !.ANO = N(<<50, 48, 50, 52>>)]

RecNumConclusao == [RecPlain EXCEPT !.CONCLUSAO = N(<<55>>)]

SampleRecords ==
    {RecPlain, RecPadded, RecEscaped, RecNoStatus, RecNumAno, RecNumConclusao}

RECURSIVE ListsUpTo(_, _)
ListsUpTo(R, n) ==
    IF n = 0 THEN {<<>>}
    ELSE LET shorter == ListsUpTo(R, n - 1)
         IN  shorter \cup {Append(l, x) : l \in {m \in shorter : Len(m) = n - 1}, x \in R}

Copies(x, n) == [i \in 1..n |-> x]

----------------------------------------------------------------------------
(* JSON values and json.loads over lexical tokens *)

JStr(s) == [t |-> "str", s |-> s]
JNum(n) == [t |-> "num", n |-> n]
JLit(s) == [t |-> "lit", s |-> s]
JArr(items) == [t |-> "arr", a |-> items]
JObj(pairs) == [t |-> "obj", m |-> pairs]

\* one lexical token of a JSON text; "junk" is text that starts no JSON value
Tok(t, s, n) == [t |-> t, s |-> s, n |-> n]
P(s) == Tok("punct", s, 0)
TStr(s) == Tok("str", s, 0)
TNum(n) == Tok("num", "", n)
TJunk(s) == Tok("junk", s, 0)

Ok(val, next) == [ok |-> TRUE, val |-> val, next |-> next, msg |-> ""]
Fail(msg) == [ok |-> FALSE, val |-> JLit("null"), next |-> 0, msg |-> msg]

At(toks, i, tok) == i <= Len(toks) /\ toks[i] = tok

\* dict assignment: a repeated key keeps its place and takes the last value
ObjPut(pairs, k, val) ==
    IF \E i \in DOMAIN pairs : pairs[i][1] = k
    THEN [i \in DOMAIN pairs |-> IF pairs[i][1] = k THEN <<k, val>> ELSE pairs[i]]
    ELSE Append(pairs, <<k, val>>)

RECURSIVE ParseValue(_, _), ParseMembers(_, _, _, _), ParseElements(_, _, _, _)

\* json.scanner: one value starting at token i
ParseValue(toks, i) ==
    IF i > Len(toks) THEN Fail("Expecting value")
    ELSE LET tok == toks[i]
         IN  CASE tok.t = "str" -> Ok(JStr(tok.s), i + 1)
               [] tok.t = "num" -> Ok(JNum(tok.n), i + 1)
               [] tok.t = "lit" -> Ok(JLit(tok.s), i + 1)
               [] tok = P("{") -> ParseMembers(toks, i + 1, <<>>, TRUE)
               [] tok = P("[") -> ParseElements(toks, i + 1, <<>>, TRUE)
               [] OTHER -> Fail("Expecting value")

\* json.decoder.JSONObject: the members after '{' or after ','
ParseMembers(toks, i, pairs, first) ==
    IF first /\ At(toks, i, P("}")) THEN Ok(JObj(pairs), i + 1)
    ELSE IF i > Len(toks) \/ toks[i].t # "str"
    THEN Fail("Expecting property name enclosed in double quotes")
    ELSE IF ~At(toks, i + 1, P(":")) THEN Fail("Expecting ':' delimiter")
    ELSE LET r == ParseValue(toks, i + 2)
         IN  IF ~r.ok THEN r
             ELSE LET ps == ObjPut(pairs, toks[i].s, r.val)
                  IN  IF At(toks, r.next, P("}")) THEN Ok(JObj(ps), r.next + 1)
                      ELSE IF At(toks, r.next, P(","))
                      THEN ParseMembers(toks, r.next + 1, ps, FALSE)
                      ELSE Fail("Expecting ',' delimiter")

\* json.decoder.JSONArray: the elements after '[' or after ','
ParseElements(toks, i, items, first) ==
    IF first /\ At(toks, i, P("]")) THEN Ok(JArr(items), i + 1)
    ELSE LET r == ParseValue(toks, i)
         IN  IF ~r.ok THEN r
             ELSE LET its == Append(items, r.val)
                  IN  IF At(toks, r.next, P("]")) THEN Ok(JArr(its), r.next + 1)
                      ELSE IF At(toks, r.next, P(","))
                      THEN ParseElements(toks, r.next + 1, its, FALSE)
                      ELSE Fail("Expecting ',' delimiter")

\* json.loads(content): content None is a TypeError, text after the value is an error
JsonLoads(content) ==
    IF content.none
    THEN Fail("the JSON object must be str, bytes or bytearray, not NoneType")
    ELSE LET r == ParseValue(content.toks, 1)
         IN  IF ~r.ok THEN r
             ELSE IF r.next <= Len(content.toks) THEN Fail("Extra data")
             ELSE r

Text(toks) == [none |-> FALSE, toks |-> toks]
NoContent == [none |-> TRUE, toks |-> <<>>]

\* the answer object the schema of the prompt asks for, as tokens
AnswerObject(risco, total) ==
    <<P("{"), TStr("resumo_geral"), P(":"), TStr("parecer"), P(","),
      TStr("principais_causas"), P(":"), P("["), TStr("causa"), P("]"), P(","),
      TStr("analise_de_risco"), P(":"), TStr(risco), P(","),
      TStr("sugestao_plano_acao"), P(":"), TStr("plano"), P(","),
      TStr("estatisticas"), P(":"), P("{"),
          TStr("total_analisado"), P(":"), TNum(total), P(","),
          TStr("status_predominante"), P(":"), TStr("ABERTA"), P("}"),
      P("}")>>

\* what message.content of a completed call can be
Contents ==
    {Text(AnswerObject("alto", 1)),
     Text(AnswerObject("medio", 7)),
     Text(AnswerObject("critico", 2)),
     Text(<<P("{"), TStr("resumo_geral"), P(":"), TStr("parecer"), P("}")>>),
     Text(<<P("["), TStr("causa"), P(","), TNum(3), P("]")>>),
     Text(<<TJunk("Desculpe")>>),
     Text(<<P("{"), TStr("resumo_geral"), P(":"), TStr("parecer"), P(",")>>),
     Text(<<P("{"), P("}"), TJunk("Fim")>>),
     Text(<<>>),
     NoContent}

\* str(e) of what the call to the service can raise
RemoteErrors == {"Connection error.", "Error code: 401"}

----------------------------------------------------------------------------
(* The handler analise_rnc *)

\* a guard that never takes the empty branch
EmptyGuard_never(list) == FALSE

\* "if not payload.dados_rnc or len(payload.dados_rnc) == 0" / "if not payload.dados_rnc"
EmptyGuard(list) == Len(list) = 0

\* a fixed answer whose risk is outside the three values
FixedResult_sem_risco(v) ==
    JObj(<< <<"resumo_geral", JStr("Nenhum registro encontrado para análise.")>>,
            <<"principais_causas", JArr(<<>>)>>,
            <<"analise_de_risco", JStr("nenhum")>>,
            <<"sugestao_plano_acao", JStr("Manter monitoramento.")>>,
            <<"estatisticas", JObj(<< <<"total_analisado", JNum(0)>>,
                                      <<"status_predominante", JStr("N/A")>> >>)>> >>)

\* the dict returned for an empty dados_rnc
FixedResult(v) ==
    IF v = "local"
    THEN JObj(<< <<"resumo_geral", JStr("Nenhum registro encontrado para análise.")>>,
                 <<"principais_causas", JArr(<<>>)>>,
                 <<"analise_de_risco", JStr("baixo")>>,
                 <<"sugestao_plano_acao", JStr("Manter monitoramento.")>>,
                 <<"estatisticas", JObj(<< <<"total_analisado", JNum(0)>>,
                                           <<"status_predominante", JStr("N/A")>> >>)>> >>)
    ELSE JObj(<< <<"resumo_geral",
                   JStr("Não foram identificados registros de Não Conformidade (RNC) para os parâmetros selecionados. Os processos operam dentro da normalidade estatística.")>>,
                 <<"principais_causas", JArr(<<JStr("Operação estável")>>)>>,
                 <<"analise_de_risco", JStr("baixo")>>,
                 <<"sugestao_plano_acao",
                   JStr("Manter protocolos de monitoramento preventivo.")>>,
                 <<"estatisticas", JObj(<< <<"total_analisado", JNum(0)>>,
                                           <<"status_predominante", JStr("N/A")>> >>)>> >>)

\* json.dumps of one value of item.model_dump()
DumpValue(val) ==
    CASE val.t = "str" -> JsonDumpsStr(val.v)
      [] val.t = "null" -> JsonNull
      [] OTHER -> val.v

\* texto_dados: per record and field, the JSON text of the value (the layout
\* of json.dumps(..., indent=2) around the values is not modelled)
TextoDados(list) == [i \in DOMAIN list |-> [f \in AllFields |-> DumpValue(list[i][f])]]

Max(a, b) == IF a >= b THEN a ELSE b

\* the sizing the comment above the assignment describes
ContextoDinamico_comentario(qtd_rnc) == 1024 + qtd_rnc * 100

\* contexto_dinamico = max(2048, qtd_rnc * 150)
ContextoDinamico(qtd_rnc) == Max(2048, qtd_rnc * 150)

\* a count of the distinct records instead of the records
PromptTotals_distintos(v, list) ==
    LET n == IntToStr(Cardinality({list[i] : i \in DOMAIN list}))
    IN  IF v = "hosted_v1" THEN [esquema |-> n] ELSE [instrucao |-> n, esquema |-> n]

\* the places of the user message where {len(payload.dados_rnc)} is substituted
PromptTotals(v, list) ==
    LET n == IntToStr(Len(list))
    IN  IF v = "hosted_v1" THEN [esquema |-> n] ELSE [instrucao |-> n, esquema |-> n]

\* the values the schema block declares for analise_de_risco: "baixo|medio|alto"
RiskOptions == <<"baixo", "medio", "alto">>

\* the messages handed to the service: the system persona, the records, the
\* substituted counts and the declared risk values
BuildPrompt(v, list) ==
    [system |-> IF v = "hosted_v1" THEN "Auditor ISO 9001 rigoroso"
                ELSE "Auditor ISO 9001 Sênior",
     texto_dados |-> TextoDados(list),
     total_analisado |-> PromptTotals(v, list),
     analise_de_risco |-> RiskOptions]

NoPrompt ==
    [system |-> "", texto_dados |-> <<>>, total_analisado |-> <<>>, analise_de_risco |-> <<>>]

\* the decoding parameters of the call
DecodingOptions(v, qtd_rnc) ==
    IF v = "local"
    THEN [model |-> "llama3.2:latest", format |-> "json", temperature |-> "0.1",
          num_ctx |-> ContextoDinamico(qtd_rnc), num_thread |-> 8,
          num_predict |-> 500, top_p |-> "0.1"]
    ELSE [model |-> "llama-3.3-70b-versatile", format |-> "json_object",
          temperature |-> "0.2"]

NoOptions == [model |-> ""]

NoAnswer == [kind |-> "none", content |-> NoContent, msg |-> ""]

NoOutcome == [kind |-> "none", status |-> 0, value |-> JLit("null"), detail |-> <<>>]

Result(val) == [kind |-> "result", status |-> 200, value |-> val, detail |-> <<>>]

\* the 422 answer of the framework for a body that does not validate
Rejected(errors) ==
    [kind |-> "client_error", status |-> 422, value |-> JLit("null"),
     detail |-> <<"validation error">>]

\* an except branch that answers with the fixed result instead of raising
OnException_padrao(v, msg) == Result(FixedResult(v))

\* except Exception as e: raise HTTPException(status_code=500, detail=...)
OnException(v, msg) ==
    [kind |-> "service_error", status |-> 500, value |-> JLit("null"),
     detail |-> IF v = "local" THEN <<"Erro no servidor local: ", msg>> ELSE <<msg>>]

\* an except branch that runs the handler again
AfterException_retry == "handler"

\* where the request stands once the except branch has raised
AfterException == "done"

\* a return that replaces what is not an object
HandlerReturn_checked(val, list) == IF val.t = "obj" THEN val ELSE JObj(<<>>)

\* return json.loads(...)
HandlerReturn(val, list) == val

\* records of another request, as a buffer shared between requests would give
OwnRecords_shared(r) == dados[CHOOSE q \in DOMAIN dados : pc[q] \notin {"received", "rejected"}]

\* payload.dados_rnc, the parameter of this request's call of the handler
OwnRecords(r) == dados[r]

----------------------------------------------------------------------------
(* State machine *)

Reqs == DOMAIN pc

InitWith(V, R, Lists) ==
    /\ variant \in V
    /\ client = (IF variant = "local" THEN "none" ELSE "Groq")
    /\ payload \in [R -> Lists]
    /\ pc = [r \in R |-> "received"]
    /\ dados = [r \in R |-> <<>>]
    /\ prompt = [r \in R |-> NoPrompt]
    /\ options = [r \in R |-> NoOptions]
    /\ calls = [r \in R |-> 0]
    /\ answer = [r \in R |-> NoAnswer]
    /\ outcome = [r \in R |-> NoOutcome]

\* one request: any list of sample records up to MaxRecs, or a longer list of
\* equal records
Init ==
    InitWith(Variants, {1},
             ListsUpTo(SampleRecords, MaxRecs) \cup {Copies(RecPlain, n) : n \in 0..MaxCtxN})

\* two requests in flight, lists up to MaxConcRecs of three of the records
InitConc ==
    InitWith(Variants, {1, 2}, ListsUpTo({RecPlain, RecEscaped, RecNoStatus}, MaxConcRecs))

\* two requests to the local variant, each a list of n equal records
InitCtx ==
    InitWith({"local"}, {1, 2},
             {Copies(x, n) : x \in {RecPlain, RecNoStatus}, n \in 0..MaxCtxN})

\* payload: RequisicaoAnalista does not validate: the framework answers 422
\* and the handler is never entered
Reject(r) ==
    /\ pc[r] = "received"
    /\ PayloadErrors(payload[r]) # {}
    /\ outcome' = [outcome EXCEPT ![r] = Rejected(PayloadErrors(payload[r]))]
    /\ pc' = [pc EXCEPT ![r] = "rejected"]
    /\ UNCHANGED <<variant, client, payload, dados, prompt, options, calls, answer>>

\* payload: RequisicaoAnalista validates: the handler is entered with the
\* list of Rnc instances
Accept(r) ==
    /\ pc[r] = "received"
    /\ PayloadErrors(payload[r]) = {}
    /\ dados' = [dados EXCEPT ![r] = [i \in DOMAIN payload[r] |-> MakeRnc(payload[r][i])]]
    /\ pc' = [pc EXCEPT ![r] = "handler"]
    /\ UNCHANGED <<variant, client, payload, prompt, options, calls, answer, outcome>>

\* the empty branch: the fixed dict is returned
ReturnFixed(r) ==
    /\ pc[r] = "handler"
    /\ EmptyGuard(OwnRecords(r))
    /\ outcome' = [outcome EXCEPT ![r] = Result(FixedResult(variant))]
    /\ pc' = [pc EXCEPT ![r] = "done"]
    /\ UNCHANGED <<variant, client, payload, dados, prompt, options, calls, answer>>

\* a call given a deadline: the request ends with the error of the deadline
\* while the call is still outstanding
InvokeService_timeout(r) ==
    /\ pc[r] = "handler"
    /\ ~EmptyGuard(OwnRecords(r))
    /\ calls[r] < MaxCalls
    /\ prompt' = [prompt EXCEPT ![r] = BuildPrompt(variant, OwnRecords(r))]
    /\ options' = [options EXCEPT ![r] = DecodingOptions(variant, Len(OwnRecords(r)))]
    /\ calls' = [calls EXCEPT ![r] = @ + 1]
    /\ pc' = [pc EXCEPT ![r] = "calling"]
    /\ outcome' = [outcome EXCEPT ![r] = OnException(variant, "Request timed out.")]
    /\ UNCHANGED <<variant, client, payload, dados, answer>>

\* the try block up to the call: texto_dados is built, the messages are
\* rendered and the service is invoked; the request waits for the call
InvokeService(r) ==
    /\ pc[r] = "handler"
    /\ ~EmptyGuard(OwnRecords(r))
    /\ calls[r] < MaxCalls
    /\ prompt' = [prompt EXCEPT ![r] = BuildPrompt(variant, OwnRecords(r))]
    /\ options' = [options EXCEPT ![r] = DecodingOptions(variant, Len(OwnRecords(r)))]
    /\ calls' = [calls EXCEPT ![r] = @ + 1]
    /\ pc' = [pc EXCEPT ![r] = "calling"]
    /\ UNCHANGED <<variant, client, payload, dados, answer, outcome>>

\* the call returns: its content is parsed and returned, or the parse error
\* is caught by the except branch
RemoteReturns(r, content) ==
    /\ pc[r] = "calling"
    /\ answer' = [answer EXCEPT ![r] = [kind |-> "returned", content |-> content, msg |-> ""]]
    /\ LET parsed == JsonLoads(content)
       IN  IF parsed.ok
           THEN /\ outcome' = [outcome EXCEPT ![r] =
                                  Result(HandlerReturn(parsed.val, OwnRecords(r)))]
                /\ pc' = [pc EXCEPT ![r] = "done"]
           ELSE /\ outcome' = [outcome EXCEPT ![r] = OnException(variant, parsed.msg)]
                /\ pc' = [pc EXCEPT ![r] = AfterException]
    /\ UNCHANGED <<variant, client, payload, dados, prompt, options, calls>>

\* the call raises: the except branch turns the exception into the 500 answer
RemoteRaises(r, msg) ==
    /\ pc[r] = "calling"
    /\ answer' = [answer EXCEPT ![r] = [kind |-> "raised", content |-> NoContent, msg |-> msg]]
    /\ outcome' = [outcome EXCEPT ![r] = OnException(variant, msg)]
    /\ pc' = [pc EXCEPT ![r] = AfterException]
    /\ UNCHANGED <<variant, client, payload, dados, prompt, options, calls>>

Next ==
    \/ \E r \in Reqs : Reject(r)
    \/ \E r \in Reqs : Accept(r)
    \/ \E r \in Reqs : ReturnFixed(r)
    \/ \E r \in Reqs : InvokeService(r)
    \/ \E r \in Reqs, content \in Contents : RemoteReturns(r, content)
    \/ \E r \in Reqs, msg \in RemoteErrors : RemoteRaises(r, msg)

Spec == Init /\ [][Next]_vars

SpecConc == InitConc /\ [][Next]_vars

SpecCtx == InitCtx /\ [][Next]_vars

\* the steps of the handler's own code for request r
HandlerSteps(r) == Reject(r) \/ Accept(r) \/ ReturnFixed(r) \/ InvokeService(r)

\* the call of request r returns or raises
RemoteResponds(r) ==
    \/ \E content \in Contents : RemoteReturns(r, content)
    \/ \E msg \in RemoteErrors : RemoteRaises(r, msg)

\* one request whose handler code keeps running and whose call to the service
\* eventually returns or raises
SpecLive ==
    /\ Init
    /\ [][Next]_vars
    /\ WF_vars(HandlerSteps(1))
    /\ WF_vars(RemoteResponds(1))


----------------------------------------------------------------------------
(* Vocabulary of the properties *)

HasKey(val, k) == val.t = "obj" /\ \E i \in DOMAIN val.m : val.m[i][1] = k

Get(val, k) == val.m[CHOOSE i \in DOMAIN val.m : val.m[i][1] = k][2]

\* the received list has a record without a required field or with a required
\* field that is not a string
HasBadRequired(list) ==
    \E i \in DOMAIN list, f \in RequiredFields :
        f \notin DOMAIN list[i] \/ list[i][f].t # "str"

\* every record of the received list has all required fields as strings, and
\* CONCLUSAO absent, null or a string
WellFormed(list) ==
    \A i \in DOMAIN list :
        /\ \A f \in RequiredFields : f \in DOMAIN list[i] /\ list[i][f].t = "str"
        /\ "CONCLUSAO" \in DOMAIN list[i] => list[i]["CONCLUSAO"].t \in {"str", "null"}

RECURSIVE StrToInt(_)
\* int(text) of a decimal numeral
StrToInt(text) ==
    IF text = <<>> THEN 0 ELSE 10 * StrToInt(SubSeq(text, 1, Len(text) - 1)) + (text[Len(text)] - 48)

IsNumeral(text) ==
    /\ text # <<>>
    /\ \A i \in DOMAIN text : text[i] \in 48..57
    /\ Len(text) > 1 => text[1] # 48

----------------------------------------------------------------------------
(* C1 *)

StableSummaries ==
    {JStr("Nenhum registro encontrado para análise."),
     JStr("Não foram identificados registros de Não Conformidade (RNC) para os parâmetros selecionados. Os processos operam dentro da normalidade estatística.")}

MonitoringAdvice ==
    {JStr("Manter monitoramento."), JStr("Manter protocolos de monitoramento preventivo.")}

\* C1: a request whose record list is empty never invokes the generation
\* service, in any variant, and when it ends it has returned the fixed
\* stable-state result: a summary of zero records, risk "baixo", a monitoring
\* recommendation, total_analisado 0 and status_predominante "N/A".
C1_EmptyReturnsFixed ==
    \A r \in Reqs :
        payload[r] = <<>> =>
            /\ calls[r] = 0
            /\ pc[r] \in {"received", "handler", "done"}
            /\ prompt[r] = NoPrompt
            /\ answer[r] = NoAnswer
            /\ pc[r] = "done" =>
                LET res == outcome[r].value
                IN  /\ outcome[r].kind = "result"
                    /\ HasKey(res, "resumo_geral")
                    /\ Get(res, "resumo_geral") \in StableSummaries
                    /\ HasKey(res, "analise_de_risco")
                    /\ Get(res, "analise_de_risco") = JStr("baixo")
                    /\ HasKey(res, "sugestao_plano_acao")
                    /\ Get(res, "sugestao_plano_acao") \in MonitoringAdvice
                    /\ HasKey(res, "estatisticas")
                    /\ HasKey(Get(res, "estatisticas"), "total_analisado")
                    /\ Get(Get(res, "estatisticas"), "total_analisado") = JNum(0)
                    /\ HasKey(Get(res, "estatisticas"), "status_predominante")
                    /\ Get(Get(res, "estatisticas"), "status_predominante") = JStr("N/A")

C1_Witness ==
    \E r \in Reqs :
        /\ payload[r] = <<>>
        /\ pc[r] = "done"
        /\ outcome[r].kind = "result"
        /\ calls[r] = 0

----------------------------------------------------------------------------
(* C2 *)

\* C2: a request with a record that lacks a required field, or gives one a
\* value that is not a string, is rejected with the client-input error (422)
\* without a prompt being built or the service being invoked; a request whose
\* records have every required field as a string is not rejected when
\* CONCLUSAO is absent.
C2_InvalidRejectedBeforeCall ==
    \A r \in Reqs :
        /\ HasBadRequired(payload[r]) =>
            /\ pc[r] \in {"received", "rejected"}
            /\ calls[r] = 0
            /\ prompt[r] = NoPrompt
            /\ pc[r] = "rejected" =>
                outcome[r].kind = "client_error" /\ outcome[r].status = 422
        /\ WellFormed(payload[r]) => pc[r] # "rejected"

C2_Witness ==
    \E r \in Reqs :
        /\ \E i \in DOMAIN payload[r] : "STATUS" \notin DOMAIN payload[r][i]
        /\ pc[r] = "rejected"
        /\ outcome[r].status = 422
        /\ calls[r] = 0

----------------------------------------------------------------------------
(* C3 *)

\* the call of the service of request r failed, or its content does not parse
Failed(r) ==
    \/ answer[r].kind = "raised"
    \/ answer[r].kind = "returned" /\ ~JsonLoads(answer[r].content).ok

\* str(e) of the exception the except branch of request r caught
FailureMessage(r) ==
    IF answer[r].kind = "raised" THEN answer[r].msg ELSE JsonLoads(answer[r].content).msg

\* C3: a validated non-empty request whose remote call raised, or returned
\* text that is not JSON, ends with the one service-error kind, status 500,
\* whose detail carries the message of the exception; it returns no result,
\* so never the fixed result of the empty branch.
C3_FailureIsServiceError ==
    \A r \in Reqs :
        Failed(r) =>
            /\ payload[r] # <<>>
            /\ pc[r] = "done"
            /\ outcome[r].kind = "service_error"
            /\ outcome[r].status = 500
            /\ \E i \in DOMAIN outcome[r].detail : outcome[r].detail[i] = FailureMessage(r)
            /\ outcome[r].value = JLit("null")

C3_Witness ==
    \E r \in Reqs :
        /\ WellFormed(payload[r]) /\ payload[r] # <<>>
        /\ answer[r].kind = "returned"
        /\ answer[r].content = Text(<<TJunk("Desculpe")>>)
        /\ outcome[r].status = 500
        /\ outcome[r].detail[Len(outcome[r].detail)] = "Expecting value"

----------------------------------------------------------------------------
(* C4 *)

\* C4: no request invokes the generation service more than once: a rejected
\* or empty request never invokes it, a validated non-empty request has
\* invoked it exactly once when it ends, and once the invocation has raised
\* or returned the request has ended and invokes nothing further.
C4_AtMostOneInvocation ==
    \A r \in Reqs :
        /\ calls[r] <= 1
        /\ (payload[r] = <<>> \/ ~WellFormed(payload[r])) => calls[r] = 0
        /\ (pc[r] = "done" /\ payload[r] # <<>>) => calls[r] = 1
        /\ pc[r] = "calling" => calls[r] = 1 /\ answer[r].kind = "none"
        /\ answer[r].kind # "none" => pc[r] = "done" /\ calls[r] = 1

C4_Witness ==
    \E r \in Reqs :
        /\ Failed(r)
        /\ pc[r] = "done"
        /\ calls[r] = 1

----------------------------------------------------------------------------
(* C5 *)

\* C5: the user message handed to the service for a list of n records states
\* total_analisado as the decimal numeral of n wherever it is substituted: in
\* the schema block in every variant, and in the instruction line as well in
\* the variants that have one (main.py and old/main.py), whatever the
\* records are and whether or not they repeat.
C5_PromptStatesCount ==
    \A r \in Reqs :
        calls[r] >= 1 =>
            LET totals == prompt[r].total_analisado
            IN  /\ "esquema" \in DOMAIN totals
                /\ variant # "hosted_v1" => "instrucao" \in DOMAIN totals
                /\ \A place \in DOMAIN totals :
                        /\ IsNumeral(totals[place])
                        /\ StrToInt(totals[place]) = Len(payload[r])

\* two equal records, counted twice in both places
C5_Witness ==
    \E r \in Reqs :
        /\ calls[r] = 1
        /\ Len(payload[r]) = 2
        /\ payload[r][1] = payload[r][2]
        /\ DOMAIN prompt[r].total_analisado = {"instrucao", "esquema"}
        /\ prompt[r].total_analisado["instrucao"] = <<50>>
        /\ prompt[r].total_analisado["esquema"] = <<50>>

----------------------------------------------------------------------------
(* C6 *)

\* d is v without a run of whitespace at its start and one at its end, and d
\* neither starts nor ends with whitespace
IsTrimOf(d, v) ==
    /\ \E a \in 0..Len(v), b \in 0..Len(v) :
          /\ a + b <= Len(v)
          /\ d = SubSeq(v, a + 1, Len(v) - b)
          /\ \A i \in 1..a : IsSpace(v[i])
          /\ \A i \in (Len(v) - b + 1)..Len(v) : IsSpace(v[i])
    /\ d # <<>> => ~IsSpace(d[1]) /\ ~IsSpace(d[Len(d)])

HexValue(c) == IF c \in 48..57 THEN c - 48 ELSE c - 87

RECURSIVE Unescape(_)
\* the characters a JSON string body stands for (characters of the basic plane)
Unescape(body) ==
    IF body = <<>> THEN <<>>
    ELSE IF body[1] # 92 THEN <<body[1]>> \o Unescape(Tail(body))
    ELSE IF body[2] = 117
         THEN <<4096 * HexValue(body[3]) + 256 * HexValue(body[4])
                + 16 * HexValue(body[5]) + HexValue(body[6])>>
              \o Unescape(SubSeq(body, 7, Len(body)))
         ELSE <<CASE body[2] = 98 -> 8
                  [] body[2] = 116 -> 9
                  [] body[2] = 110 -> 10
                  [] body[2] = 102 -> 12
                  [] body[2] = 114 -> 13
                  [] OTHER -> body[2]>>
              \o Unescape(SubSeq(body, 3, Len(body)))

\* printable ASCII other than the double quote and the backslash
IsPlain(c) == c \in 32..126 /\ c \notin {34, 92}

IsQuoted(text) == Len(text) >= 2 /\ text[1] = 34 /\ text[Len(text)] = 34

Body(text) == SubSeq(text, 2, Len(text) - 1)

\* C6 as stated: every string field is serialized into the prompt as the
\* received value without its leading and trailing whitespace and with no
\* other change.
C6_Original ==
    \A r \in Reqs :
        calls[r] >= 1 =>
            \A i \in DOMAIN payload[r], f \in AllFields :
                LET raw == payload[r][i]
                    text == prompt[r].texto_dados[i][f]
                IN  (f \in DOMAIN raw /\ raw[f].t = "str") =>
                        IsQuoted(text) /\ IsTrimOf(Body(text), raw[f].v)

\* C6 (amended): every string field is serialized into the prompt as the JSON
\* string (json.dumps, non-ASCII and control characters, the double quote and
\* the backslash escaped) of the received value without its leading and
\* trailing whitespace: decoding it gives exactly the trimmed value, trimming
\* that again changes nothing, and the text between the quotes is the trimmed
\* value itself when that holds only printable ASCII without double quote
\* and backslash.  An absent or null CONCLUSAO is serialized as null, and a
\* value of whitespace only is accepted and serialized as the empty string.
C6_TrimmedThenJsonEncoded ==
    \A r \in Reqs :
        calls[r] >= 1 =>
            \A i \in DOMAIN payload[r], f \in AllFields :
                LET raw == payload[r][i]
                    text == prompt[r].texto_dados[i][f]
                IN  IF f \in DOMAIN raw /\ raw[f].t = "str"
                    THEN /\ IsQuoted(text)
                         /\ IsTrimOf(Unescape(Body(text)), raw[f].v)
                         /\ Strip(Unescape(Body(text))) = Unescape(Body(text))
                         /\ \A k \in DOMAIN Body(text) : Body(text)[k] \in 32..126
                         /\ (\A k \in DOMAIN raw[f].v : IsPlain(raw[f].v[k]))
                                => IsTrimOf(Body(text), raw[f].v)
                         /\ (\A k \in DOMAIN raw[f].v : IsSpace(raw[f].v[k]))
                                => text = <<34, 34>>
                    ELSE f = "CONCLUSAO" /\ text = JsonNull

\* "  X  " arrives in the prompt as "X", whitespace only as "", an absent
\* CONCLUSAO as null
C6_Witness ==
    \E r \in Reqs, i \in 1..MaxRecs :
        /\ calls[r] = 1
        /\ i \in DOMAIN payload[r]
        /\ payload[r][i] = RecPadded
        /\ prompt[r].texto_dados[i]["DESCRICAO"] = <<34, 88, 34>>
        /\ prompt[r].texto_dados[i]["CLIENTE"] = <<34, 34>>
        /\ prompt[r].texto_dados[i]["CONCLUSAO"] = JsonNull

----------------------------------------------------------------------------
(* C7 *)

\* the call of request r returned content that parses as JSON
Parsed(r) == answer[r].kind = "returned" /\ JsonLoads(answer[r].content).ok

\* C7: when the content the service returned parses as JSON, the request
\* returns exactly the parsed value: nothing is added, removed, repaired or
\* checked, whether or not the value is an object, has the keys of the
\* schema, or states the count of the records.
C7_ParsedReturnedVerbatim ==
    \A r \in Reqs :
        Parsed(r) =>
            /\ pc[r] = "done"
            /\ outcome[r] = Result(JsonLoads(answer[r].content).val)

\* an array is returned as the result of a request
C7_Witness ==
    \E r \in Reqs :
        /\ Parsed(r)
        /\ outcome[r].kind = "result"
        /\ outcome[r].value = JArr(<<JStr("causa"), JNum(3)>>)

----------------------------------------------------------------------------
(* C8 *)

RiskValues == {JStr("baixo"), JStr("medio"), JStr("alto")}

HasRisk(val) == HasKey(val, "analise_de_risco") /\ Get(val, "analise_de_risco") \in RiskValues

\* C8 as stated: every result returned to the caller has analise_de_risco
\* among "baixo", "medio", "alto".
C8_Original ==
    \A r \in Reqs : outcome[r].kind = "result" => HasRisk(outcome[r].value)

\* C8 (amended): the result the handler builds itself, the fixed result of
\* the empty path, has analise_de_risco = "baixo"; on the non-empty path
\* the prompt declares exactly the three values "baixo", "medio", "alto" and
\* the returned analise_de_risco is the one of the service's answer,
\* unchanged: it is one of the three values exactly when the answer's is.
C8_RiskOnlyFromService ==
    \A r \in Reqs :
        outcome[r].kind = "result" =>
            IF payload[r] = <<>>
            THEN HasRisk(outcome[r].value)
                 /\ Get(outcome[r].value, "analise_de_risco") = JStr("baixo")
            ELSE LET sent == JsonLoads(answer[r].content).val
                 IN  /\ prompt[r].analise_de_risco = <<"baixo", "medio", "alto">>
                     /\ HasRisk(outcome[r].value) <=> HasRisk(sent)
                     /\ HasKey(outcome[r].value, "analise_de_risco")
                            <=> HasKey(sent, "analise_de_risco")
                     /\ HasKey(sent, "analise_de_risco") =>
                            Get(outcome[r].value, "analise_de_risco")
                                = Get(sent, "analise_de_risco")

\* the risk of the service's answer reaches the caller of a non-empty request
C8_Witness ==
    \E r \in Reqs :
        /\ payload[r] # <<>>
        /\ outcome[r].kind = "result"
        /\ prompt[r].analise_de_risco = <<"baixo", "medio", "alto">>
        /\ HasRisk(outcome[r].value)
        /\ Get(outcome[r].value, "analise_de_risco") = JStr("alto")

----------------------------------------------------------------------------
(* C9 *)

\* what the handling of request r shows so far, computed from nothing but
\* its own received list and the answer to its own call
OwnView(r) ==
    LET list == [i \in DOMAIN payload[r] |-> MakeRnc(payload[r][i])]
        invoked == pc[r] \in {"calling", "done"} /\ payload[r] # <<>>
    IN  [dados |-> IF pc[r] \in {"received", "rejected"} THEN <<>> ELSE list,
         prompt |-> IF invoked THEN BuildPrompt(variant, list) ELSE NoPrompt,
         options |-> IF invoked THEN DecodingOptions(variant, Len(list)) ELSE NoOptions,
         calls |-> IF invoked THEN 1 ELSE 0,
         outcome |->
            CASE pc[r] = "rejected" -> Rejected(PayloadErrors(payload[r]))
              [] pc[r] = "done" /\ payload[r] = <<>> -> Result(FixedResult(variant))
              [] pc[r] = "done" /\ payload[r] # <<>> /\ Parsed(r) ->
                    Result(JsonLoads(answer[r].content).val)
              [] pc[r] = "done" /\ payload[r] # <<>> /\ ~Parsed(r) ->
                    OnException(variant, FailureMessage(r))
              [] OTHER -> NoOutcome]

\* a step is the step of one request and touches nothing of the others, nor
\* the handle and the program they share
OneRequestSteps ==
    /\ client' = client
    /\ variant' = variant
    /\ payload' = payload
    /\ \E r \in Reqs :
          \A q \in Reqs \ {r} :
              /\ pc'[q] = pc[q]
              /\ dados'[q] = dados[q]
              /\ prompt'[q] = prompt[q]
              /\ options'[q] = options[q]
              /\ calls'[q] = calls[q]
              /\ answer'[q] = answer[q]
              /\ outcome'[q] = outcome[q]

\* C9: under every interleaving of two requests, the records, the prompt, the
\* options and the outcome of each request are those its own received list
\* and the answer to its own call determine, and no step of one request
\* changes anything of the other or the state both share.
C9_RequestsIndependent ==
    /\ [](\A r \in Reqs :
            /\ dados[r] = OwnView(r).dados
            /\ prompt[r] = OwnView(r).prompt
            /\ options[r] = OwnView(r).options
            /\ calls[r] = OwnView(r).calls
            /\ outcome[r] = OwnView(r).outcome)
    /\ [][OneRequestSteps]_vars

\* two requests with different lists in flight: one waits for its call while
\* the other has ended with a service error
C9_Witness ==
    /\ Reqs = {1, 2}
    /\ payload[1] # payload[2]
    /\ pc[1] = "calling"
    /\ pc[2] = "done"
    /\ outcome[2].kind = "service_error"
    /\ prompt[1] # prompt[2]

----------------------------------------------------------------------------
(* C10 *)

----------------------------------------------------------------------------
(* C11 *)

\* request r was received with a non-empty list of well-formed records
ValidNonEmpty(r) == payload[r] # <<>> /\ WellFormed(payload[r])

Completed(r) == outcome[r].kind \in {"result", "service_error"}

\* C11: a valid non-empty request has no outcome while its call to the
\* service is outstanding (nothing but the return or the failure of the call
\* ends it), gets its outcome, a result or a service error, in the very step
\* in which the call returns or raises, keeps that one outcome from then on,
\* and, the call eventually returning or raising, eventually completes.
C11_CompletesOnlyAfterCall ==
    /\ [](ValidNonEmpty(1) =>
            /\ pc[1] = "calling" => outcome[1] = NoOutcome /\ answer[1] = NoAnswer
            /\ outcome[1] # NoOutcome => Completed(1) /\ pc[1] = "done" /\ answer[1] # NoAnswer
            /\ pc[1] = "done" => Completed(1))
    /\ [][ValidNonEmpty(1) =>
            /\ outcome[1] # NoOutcome => outcome'[1] = outcome[1]
            /\ (outcome[1] = NoOutcome /\ outcome'[1] # NoOutcome) =>
                    /\ pc[1] = "calling"
                    /\ answer[1] = NoAnswer
                    /\ answer'[1].kind \in {"returned", "raised"}]_vars
    /\ (ValidNonEmpty(1) /\ pc[1] = "calling") ~> (pc[1] = "done" /\ Completed(1))
    /\ ValidNonEmpty(1) ~> (pc[1] = "done" /\ Completed(1))

\* a valid non-empty request has completed with the result of its one call
C11_Witness ==
    /\ ValidNonEmpty(1)
    /\ pc[1] = "done"
    /\ calls[1] = 1
    /\ answer[1].kind = "returned"
    /\ outcome[1].kind = "result"

====
